---- MODULE Spec2Model ----
(***************************************************************************)
(* Model of live-parking-norwich: LiveParkingNorwich.refresh() and the     *)
(* three stages it runs (_retrieve_xml_data, _parse_xml_data,              *)
(* _transform_data_to_car_parks).                                          *)
(*                                                                         *)
(* Text is a sequence of one-character strings, so that str.split, re.sub, *)
(* int(), float() and strptime() are computed character by character.      *)
(* Python values carry their type in the field "py".                       *)
(***************************************************************************)
EXTENDS Integers, Sequences, FiniteSets, TLC

\* ------------------------------------------------------------------------
\* Bounds of the model
\* ------------------------------------------------------------------------
MaxWords == 3        \* words concatenated into a car park name
MaxRaw == 2          \* raw records handed to the transformer run on its own
MaxRecords == 2      \* situationRecord elements in one feed
NumInstances == 2    \* LiveParkingNorwich objects in the threaded runs

\* ------------------------------------------------------------------------
\* Python values
\* ------------------------------------------------------------------------
PyNone == [py |-> "NoneType"]
PyBool(b) == [py |-> "bool", v |-> b]
PyStr(s) == [py |-> "str", v |-> s]
PyList(l) == [py |-> "list", v |-> l]
PyDateTime(n) == [py |-> "datetime", v |-> n]
PyFloat(num, scale) == [py |-> "float", num |-> num, scale |-> scale]

Returned(v) == [ok |-> TRUE, val |-> v]
Raised(type, msg, frames) == [ok |-> FALSE, type |-> type, msg |-> msg, tb |-> frames]

\* ------------------------------------------------------------------------
\* Characters
\* ------------------------------------------------------------------------
Digits == <<"0", "1", "2", "3", "4", "5", "6", "7", "8", "9">>
DigitChars == {Digits[i] : i \in 1..10}
DigitValue(c) == (CHOOSE i \in 1..10 : Digits[i] = c) - 1

\* \w of the re module on ASCII text
WordChars ==
    DigitChars \cup {"_"} \cup
    {"a", "b", "c", "d", "e", "f", "g", "h", "i", "j", "k", "l", "m",
     "n", "o", "p", "q", "r", "s", "t", "u", "v", "w", "x", "y", "z"} \cup
    {"A", "B", "C", "D", "E", "F", "G", "H", "I", "J", "K", "L", "M",
     "N", "O", "P", "Q", "R", "S", "T", "U", "V", "W", "X", "Y", "Z"}

RECURSIVE Join(_)
Join(words) == IF words = <<>> THEN <<>> ELSE Head(words) \o Join(Tail(words))

\* ------------------------------------------------------------------------
\* str.split(sep) for a one-character separator: always at least one part
\* ------------------------------------------------------------------------
RECURSIVE SplitFrom(_, _, _, _)
SplitFrom(s, sep, i, cur) ==
    IF i > Len(s) THEN <<cur>>
    ELSE IF s[i] = sep THEN <<cur>> \o SplitFrom(s, sep, i + 1, <<>>)
    ELSE SplitFrom(s, sep, i + 1, Append(cur, s[i]))

\* as str.split(sep, 1): what follows the first separator stays in one part
SplitMaxOne(s, sep) ==
    IF \E i \in 1..Len(s) : s[i] = sep
    THEN LET i == CHOOSE i \in 1..Len(s) : s[i] = sep /\ \A j \in 1..(i - 1) : s[j] # sep
         IN  <<SubSeq(s, 1, i - 1), SubSeq(s, i + 1, Len(s))>>
    ELSE <<s>>

Split(s, sep) == SplitFrom(s, sep, 1, <<>>)

\* ------------------------------------------------------------------------
\* re.sub for the two patterns of the name repair
\* ------------------------------------------------------------------------
PatNor == "Nor(?:wic)?\\b"
PatNORW == "NORW\\b"

LitNor == <<"N", "o", "r">>
LitWic == <<"w", "i", "c">>
LitNorwich == <<"N", "o", "r", "w", "i", "c", "h">>
LitNORW == <<"N", "O", "R", "W">>
LitNORWICH == <<"N", "O", "R", "W", "I", "C", "H">>

\* the literal lit occurs in s starting at index i
LitAt(s, i, lit) ==
    /\ i + Len(lit) - 1 <= Len(s)
    /\ \A k \in 1..Len(lit) : s[i + k - 1] = lit[k]

\* \b between s[p-1] and s[p] (p in 1..Len(s)+1)
IsWordAt(s, p) == p >= 1 /\ p <= Len(s) /\ s[p] \in WordChars
WordBoundary(s, p) == IsWordAt(s, p - 1) # IsWordAt(s, p)

\* length of the match of pat anchored at index i, 0 when there is none
MatchLen(pat, s, i) ==
    IF pat = PatNor THEN
        IF ~LitAt(s, i, LitNor) THEN 0
        ELSE IF LitAt(s, i + 3, LitWic) /\ WordBoundary(s, i + 6) THEN 6
        ELSE IF WordBoundary(s, i + 3) THEN 3
        ELSE 0
    ELSE
        IF LitAt(s, i, LitNORW) /\ WordBoundary(s, i + 4) THEN 4 ELSE 0

RECURSIVE SubFrom(_, _, _, _)
SubFrom(pat, repl, s, i) ==
    IF i > Len(s) THEN <<>>
    ELSE LET n == MatchLen(pat, s, i) IN
         IF n > 0 THEN repl \o SubFrom(pat, repl, s, i + n)
         ELSE <<s[i]>> \o SubFrom(pat, repl, s, i + 1)

Sub(pat, repl, s) == SubFrom(pat, repl, s, 1)

\* ------------------------------------------------------------------------
\* int(), float() and datetime.strptime() on element text
\* ------------------------------------------------------------------------
AllDigits(s) == Len(s) > 0 /\ \A k \in 1..Len(s) : s[k] \in DigitChars

RECURSIVE DigitsValue(_)
DigitsValue(s) ==
    IF s = <<>> THEN 0
    ELSE 10 * DigitsValue(SubSeq(s, 1, Len(s) - 1)) + DigitValue(s[Len(s)])

RECURSIVE Pow10(_)
Pow10(n) == IF n = 0 THEN 1 ELSE 10 * Pow10(n - 1)

HasSign(s) == Len(s) > 0 /\ s[1] \in {"-", "+"}
Unsigned(s) == IF HasSign(s) THEN Tail(s) ELSE s
SignOf(s) == IF Len(s) > 0 /\ s[1] = "-" THEN -1 ELSE 1

IntLiteral(s) == AllDigits(Unsigned(s))
IntValue(s) == SignOf(s) * DigitsValue(Unsigned(s))

\* digits [ "." digits ], with at least one digit in all
FloatParts(s) == Split(Unsigned(s), ".")
FloatLiteral(s) ==
    LET p == FloatParts(s) IN
    /\ Len(p) <= 2
    /\ \A k \in 1..Len(p) : p[k] = <<>> \/ AllDigits(p[k])
    /\ \E k \in 1..Len(p) : p[k] # <<>>

\* the value as num / 10^scale in lowest decimal terms
RECURSIVE Normalise(_, _)
Normalise(num, scale) ==
    IF scale > 0 /\ num % 10 = 0 THEN Normalise(num \div 10, scale - 1)
    ELSE PyFloat(num, scale)

FloatValue(s) ==
    LET p == FloatParts(s)
        frac == IF Len(p) = 2 THEN p[2] ELSE <<>>
        mag == DigitsValue(p[1]) * Pow10(Len(frac)) + DigitsValue(frac)
    IN  IF SignOf(s) = -1
        THEN LET n == Normalise(mag, Len(frac)) IN PyFloat(-n.num, n.scale)
        ELSE Normalise(mag, Len(frac))

\* ------------------------------------------------------------------------
\* What urlopen(url) meets: an unreachable URL, or a response body.  A body
\* is well-formed XML or not; a well-formed one is the element tree that
\* ElementTree.fromstring builds, reduced to the elements the parser looks up.
\* An element is absent (find returns None), present without text (its
\* .text is None) or present with text.
\* ------------------------------------------------------------------------
Absent == [tag |-> "absent"]
NoText == [tag |-> "notext"]
Elem(t) == [tag |-> "text", text |-> t]

Unreachable == [kind |-> "unreachable", reason |-> "[Errno 111] Connection refused"]
NotWellFormed == [kind |-> "body", wellFormed |-> FALSE]
Document(pt, sits) ==
    [kind |-> "body", wellFormed |-> TRUE, publicationTime |-> pt, situations |-> sits]
SituationRecord(id, st, occ, cap, ratio) ==
    [carParkIdentity |-> id, carParkStatus |-> st, occupiedSpaces |-> occ,
     totalCapacity |-> cap, carParkOccupancy |-> ratio]

XML_URL == "Config.XML_URL"

\* ------------------------------------------------------------------------
\* _retrieve_xml_data
\* ------------------------------------------------------------------------
RetrieveXmlData(response) ==
    IF response.kind = "unreachable"
    THEN Raised("URLError",
                "<urlopen error Failed to retrieve XML data from " \o XML_URL
                    \o ": " \o response.reason \o ">",
                <<"refresh:174", "_retrieve_xml_data:94">>)
    ELSE Returned(response)

\* ------------------------------------------------------------------------
\* _parse_xml_data
\* ------------------------------------------------------------------------
NoAttribute(attr) == "'NoneType' object has no attribute '" \o attr \o "'"

\* element.find(tag).text
FindText(el, line) ==
    IF el.tag = "absent"
    THEN Raised("AttributeError", NoAttribute("text"), <<"refresh:177", line>>)
    ELSE Returned(IF el.tag = "notext" THEN PyNone ELSE PyStr(el.text))

\* Config.DATE_FORMAT: config.py is not among the sources; the model takes a
\* format of one four-digit field
DATE_FORMAT == "%Y"
MatchesDateFormat(s) == DATE_FORMAT = "%Y" /\ Len(s) = 4 /\ AllDigits(s)

\* datetime.strptime(text, Config.DATE_FORMAT)
Strptime(text, line) ==
    IF text.py = "NoneType"
    THEN Raised("TypeError", "strptime() argument 1 must be str, not None",
                <<"refresh:177", line>>)
    ELSE IF MatchesDateFormat(text.v)
    THEN Returned(PyDateTime(DigitsValue(text.v)))
    ELSE Raised("ValueError", "time data does not match format",
                <<"refresh:177", line, "_strptime">>)

\* int(text)
ToInt(text, line) ==
    IF text.py = "NoneType"
    THEN Raised("TypeError", "int() argument must be a string, not 'NoneType'",
                <<"refresh:177", line>>)
    ELSE IF IntLiteral(text.v) THEN Returned(IntValue(text.v))
    ELSE Raised("ValueError", "invalid literal for int() with base 10",
                <<"refresh:177", line>>)

\* float(text)
ToFloat(text, line) ==
    IF text.py = "NoneType"
    THEN Raised("TypeError", "float() argument must be a string or a real number, not 'NoneType'",
                <<"refresh:177", line>>)
    ELSE IF FloatLiteral(text.v) THEN Returned(FloatValue(text.v))
    ELSE Raised("ValueError", "could not convert string to float",
                <<"refresh:177", line>>)

RawCarPark(identity, status, occupied_spaces, total_capacity, occupancy) ==
    [identity |-> identity, status |-> status, occupied_spaces |-> occupied_spaces,
     total_capacity |-> total_capacity, occupancy |-> occupancy]

\* r when it raised, else what the continuation K makes of its value
Then(r, K(_)) == IF r.ok THEN K(r.val) ELSE r

\* body of the inner loop: lines 121-127, the first failing lookup raises
ExtractDetails(rec) ==
    Then(FindText(rec.carParkIdentity, "_parse_xml_data:121"), LAMBDA identity :
    Then(FindText(rec.carParkStatus, "_parse_xml_data:122"), LAMBDA status :
    Then(Then(FindText(rec.occupiedSpaces, "_parse_xml_data:123"),
              LAMBDA text : ToInt(text, "_parse_xml_data:123")), LAMBDA occupied_spaces :
    Then(Then(FindText(rec.totalCapacity, "_parse_xml_data:124"),
              LAMBDA text : ToInt(text, "_parse_xml_data:124")), LAMBDA total_capacity :
    Then(Then(FindText(rec.carParkOccupancy, "_parse_xml_data:125"),
              LAMBDA text : ToFloat(text, "_parse_xml_data:125")), LAMBDA occupancy :
    Returned(RawCarPark(identity, status, occupied_spaces, total_capacity, occupancy)))))))

\* as if a record that fails to parse were skipped
RECURSIVE ParseSituationRecordsSkip(_, _)
ParseSituationRecordsSkip(records, car_park_data) ==
    IF records = <<>> THEN Returned(car_park_data)
    ELSE LET raw == ExtractDetails(Head(records)) IN
         ParseSituationRecordsSkip(Tail(records),
             IF raw.ok THEN Append(car_park_data, raw.val) ELSE car_park_data)

\* as if each record were inserted at the front of car_park_data
RECURSIVE ParseSituationRecordsPrepend(_, _)
ParseSituationRecordsPrepend(records, car_park_data) ==
    IF records = <<>> THEN Returned(car_park_data)
    ELSE Then(ExtractDetails(Head(records)), LAMBDA raw :
              ParseSituationRecordsPrepend(Tail(records), <<raw>> \o car_park_data))

\* for situation_record in situation.findall(...): append to car_park_data
RECURSIVE ParseSituationRecords(_, _)
ParseSituationRecords(records, car_park_data) ==
    IF records = <<>> THEN Returned(car_park_data)
    ELSE Then(ExtractDetails(Head(records)), LAMBDA raw :
              ParseSituationRecords(Tail(records), Append(car_park_data, raw)))

\* for situation in root.findall(...)
RECURSIVE ParseSituations(_, _)
ParseSituations(situations, car_park_data) ==
    IF situations = <<>> THEN Returned(car_park_data)
    ELSE Then(ParseSituationRecords(Head(situations), car_park_data), LAMBDA inner :
              ParseSituations(Tail(situations), inner))

\* returns the pair <<car_park_data, last_updated>>
ParseXmlData(xml_data) ==
    IF ~xml_data.wellFormed
    THEN Raised("ParseError", "syntax error: line 1, column 0",
                <<"refresh:177", "_parse_xml_data:108", "XML">>)
    ELSE Then(FindText(xml_data.publicationTime, "_parse_xml_data:111"), LAMBDA publication_time :
         Then(Strptime(publication_time, "_parse_xml_data:112"), LAMBDA last_updated :
         Then(ParseSituations(xml_data.situations, <<>>), LAMBDA car_park_data :
         Returned(<<car_park_data, last_updated>>))))

\* ------------------------------------------------------------------------
\* _transform_data_to_car_parks
\* ------------------------------------------------------------------------
CarPark(code, name, status, occupied_spaces, remaining_spaces, total_capacity, occupancy) ==
    [code |-> code, name |-> name, status |-> status,
     occupied_spaces |-> occupied_spaces, remaining_spaces |-> remaining_spaces,
     total_capacity |-> total_capacity, occupancy |-> occupancy]

\* lines 152-153
FixTruncatedName(name) == Sub(PatNORW, LitNORWICH, Sub(PatNor, LitNorwich, name))

\* as max(0, total_capacity - occupied_spaces)
RemainingSpacesClamped(data) ==
    IF data.total_capacity - data.occupied_spaces < 0 THEN 0
    ELSE data.total_capacity - data.occupied_spaces

\* line 156
RemainingSpaces(data) == data.total_capacity - data.occupied_spaces

\* body of the loop: lines 147-159
TransformOne(data) ==
    IF data.identity.py = "NoneType"
    THEN Raised("AttributeError", NoAttribute("split"),
                <<"refresh:180", "_transform_data_to_car_parks:147">>)
    ELSE LET identity_parts == Split(data.identity.v, ":") IN
         IF Len(identity_parts) < 2
         THEN Raised("IndexError", "list index out of range",
                     <<"refresh:180", "_transform_data_to_car_parks:148">>)
         ELSE Returned(CarPark(PyStr(identity_parts[2]),
                               PyStr(FixTruncatedName(identity_parts[1])),
                               data.status, data.occupied_spaces,
                               RemainingSpaces(data), data.total_capacity,
                               data.occupancy))

RECURSIVE TransformFrom(_, _)
TransformFrom(car_park_data, car_parks) ==
    IF car_park_data = <<>> THEN Returned(car_parks)
    ELSE Then(TransformOne(Head(car_park_data)), LAMBDA car_park :
              TransformFrom(Tail(car_park_data), Append(car_parks, car_park)))

TransformDataToCarParks(car_park_data) == TransformFrom(car_park_data, <<>>)

\* ------------------------------------------------------------------------
\* except Exception: the classes the stages raise, with their base classes
\* ------------------------------------------------------------------------
BaseClass ==
    [URLError |-> "OSError", OSError |-> "Exception",
     ParseError |-> "SyntaxError", SyntaxError |-> "Exception",
     AttributeError |-> "Exception", TypeError |-> "Exception",
     ValueError |-> "Exception", IndexError |-> "LookupError",
     LookupError |-> "Exception", Exception |-> "BaseException"]

RECURSIVE IsSubclass(_, _)
IsSubclass(cls, base) ==
    \/ cls = base
    \/ cls \in DOMAIN BaseClass /\ IsSubclass(BaseClass[cls], base)

\* as except URLError
HandledURLErrorOnly(e) == IsSubclass(e.type, "URLError")

Handled(e) == IsSubclass(e.type, "Exception")

\* line 194
ErrorMessage(e) == PyStr(e.type \o ": " \o e.msg)

\* line 195: format_tb gives one string per frame, outermost first
FormatTb(e) == PyList(e.tb)

\* as if lines 184-185 were missing
SuccessEnvelopeNotCleared ==
    [success |-> PyBool(TRUE), error_message |-> PyNone, traceback |-> PyNone]

\* lines 183-185
SuccessEnvelope ==
    [success |-> PyBool(TRUE), error_message |-> PyStr(""), traceback |-> PyStr("")]

\* lines 193-195
FailureEnvelope(e) ==
    [success |-> PyBool(FALSE), error_message |-> ErrorMessage(e), traceback |-> FormatTb(e)]

\* as self.__field = self.__field or value
SetAttrOnce(field, obj, value) ==
    IF field[obj] = PyNone THEN [field EXCEPT ![obj] = value] ELSE field

\* as an attribute of the class, shared by its objects
SetAttrShared(field, obj, value) == [o \in DOMAIN field |-> value]

\* self.__field = value: the attribute of one object
SetAttr(field, obj, value) == [field EXCEPT ![obj] = value]

\* ------------------------------------------------------------------------
\* State
\* ------------------------------------------------------------------------
VARIABLES
    last_updated,    \* self.__last_updated of every LiveParkingNorwich object
    success,         \* self.__success
    error_message,   \* self.__error_message
    traceback,       \* self.__traceback
    self,            \* the object of the latest completed refresh(), 0 before
    response,        \* what urlopen met in that call
    returned,        \* what that call returned to its caller
    frames,          \* threaded runs: the frame of each thread's refresh()
    arg,             \* stage run on its own: the argument
    res              \* stage run on its own: the result, PyNone before the call

vars == <<last_updated, success, error_message, traceback, self, response,
          returned, frames, arg, res>>
envelope == <<last_updated, success, error_message, traceback>>

Objects == DOMAIN success

\* __init__, lines 30-33
InitObjects(objs) ==
    /\ last_updated = [o \in objs |-> PyNone]
    /\ success = [o \in objs |-> PyNone]
    /\ error_message = [o \in objs |-> PyNone]
    /\ traceback = [o \in objs |-> PyNone]

NoCall == self = 0 /\ response = PyNone /\ returned = PyNone
NoThreads == frames = <<>>
NoStage == arg = [stage |-> "none"] /\ res = PyNone

\* ------------------------------------------------------------------------
\* Inputs
\* ------------------------------------------------------------------------
RECURSIVE SeqsUpTo(_, _)
SeqsUpTo(S, n) ==
    IF n = 0 THEN {<<>>}
    ELSE LET shorter == SeqsUpTo(S, n - 1) IN
         shorter \cup {Append(q, x) : q \in {q \in shorter : Len(q) = n - 1}, x \in S}

PublicationTimes ==
    {Elem(<<"2", "0", "2", "4">>), Elem(<<"2", "0", "2", "5">>)}
BadPublicationTimes ==
    {Absent, NoText, Elem(<<"2", "0", "x", "4">>)}

StatusOpen == Elem(<<"o", "p", "e", "n">>)

\* situationRecord elements of the feeds
RecordA ==
    SituationRecord(Elem(<<"A", " ", "N", "o", "r", ":", "C", "1">>), StatusOpen,
                    Elem(<<"1", "2", "0">>), Elem(<<"5", "0", "0">>),
                    Elem(<<"2", "4", ".", "0">>))
RecordB ==
    SituationRecord(Elem(<<"B", ":", "C", "2", ":", "x">>), NoText,
                    Elem(<<"9">>), Elem(<<"7">>), Elem(<<"1", ".", "5">>))
RecordNoOccupancy ==
    SituationRecord(Elem(<<"D", ":", "C", "3">>), StatusOpen,
                    Elem(<<"1">>), Elem(<<"2">>), Absent)
RecordBadInt ==
    SituationRecord(Elem(<<"E", ":", "C", "4">>), StatusOpen,
                    Elem(<<"1", "x">>), Elem(<<"2">>), Elem(<<"5", "0">>))
RecordNoColon ==
    SituationRecord(Elem(<<"N", "o", "C", "o", "l", "o", "n">>), StatusOpen,
                    Elem(<<"3">>), Elem(<<"4">>), Elem(<<"7", "5">>))

GoodRecords == {RecordA, RecordB}
BadRecords == {RecordNoOccupancy, RecordBadInt, RecordNoColon}
Records == GoodRecords \cup BadRecords

\* the ways to cut a sequence of records into consecutive situations, none empty
RECURSIVE Cuts(_)
Cuts(q) ==
    IF q = <<>> THEN {<<>>}
    ELSE UNION {{<<SubSeq(q, 1, k)>> \o rest : rest \in Cuts(SubSeq(q, k + 1, Len(q)))}
                : k \in 1..Len(q)}

\* the feeds refresh() meets: the first record in a situation of its own,
\* the others together in a second one
OneThenRest(q) ==
    IF Len(q) <= 1 THEN IF q = <<>> THEN <<>> ELSE <<q>>
    ELSE <<SubSeq(q, 1, 1), SubSeq(q, 2, Len(q))>>

Feeds == {OneThenRest(q) : q \in SeqsUpTo(Records, MaxRecords)}

Responses ==
    {Unreachable, NotWellFormed}
    \cup {Document(pt, sits) : pt \in PublicationTimes, sits \in Feeds}
    \cup {Document(pt, sits) : pt \in BadPublicationTimes,
                               sits \in {<<>>, <<<<RecordA>>>>}}

\* ------------------------------------------------------------------------
\* refresh(), lines 171-198, run without interruption
\* ------------------------------------------------------------------------
\* as if last_updated were assigned after the transformer returned
PipelineAssignLast(resp) ==
    LET xml == RetrieveXmlData(resp) IN
    IF ~xml.ok THEN [assigned |-> FALSE, end |-> xml]
    ELSE CHOOSE out \in {LET parsed == ParseXmlData(xml.val) IN
                         IF ~parsed.ok THEN [assigned |-> FALSE, end |-> parsed]
                         ELSE LET car_parks == TransformDataToCarParks(parsed.val[1]) IN
                              [assigned |-> car_parks.ok, lu |-> parsed.val[2],
                               end |-> car_parks]} : TRUE

\* the three stages of the try block; lu is what line 177 assigns, if reached
Pipeline(resp) ==
    LET xml == RetrieveXmlData(resp) IN
    IF ~xml.ok THEN [assigned |-> FALSE, end |-> xml]
    ELSE \* line 177
         CHOOSE out \in {LET parsed == ParseXmlData(xml.val) IN
                         IF ~parsed.ok THEN [assigned |-> FALSE, end |-> parsed]
                         ELSE [assigned |-> TRUE, lu |-> parsed.val[2],
                               \* line 180
                               end |-> TransformDataToCarParks(parsed.val[1])]} : TRUE

Refresh(obj, resp) ==
    \E run \in {Pipeline(resp)} :
        /\ self' = obj
        /\ response' = resp
        /\ last_updated' = IF run.assigned THEN SetAttr(last_updated, obj, run.lu)
                           ELSE last_updated
        /\ IF run.end.ok
           THEN /\ success' = SetAttr(success, obj, SuccessEnvelope.success)
                /\ error_message' = SetAttr(error_message, obj, SuccessEnvelope.error_message)
                /\ traceback' = SetAttr(traceback, obj, SuccessEnvelope.traceback)
                /\ returned' = PyList(run.end.val)
           ELSE IF Handled(run.end)
           THEN /\ success' = SetAttr(success, obj, FailureEnvelope(run.end).success)
                /\ error_message' = SetAttr(error_message, obj, FailureEnvelope(run.end).error_message)
                /\ traceback' = SetAttr(traceback, obj, FailureEnvelope(run.end).traceback)
                /\ returned' = PyList(<<>>)
           ELSE /\ UNCHANGED <<success, error_message, traceback>>
                /\ returned' = [py |-> "raise", e |-> run.end]
        /\ UNCHANGED <<frames, arg, res>>

RefreshCall == \E obj \in Objects, resp \in Responses : Refresh(obj, resp)

Init == InitObjects({1}) /\ NoCall /\ NoThreads /\ NoStage
Next == RefreshCall
Spec == Init /\ [][Next]_vars

\* ------------------------------------------------------------------------
\* The parser and the transformer run on their own
\* ------------------------------------------------------------------------
Space == <<" ">>
Colon == <<":">>
Words == {LitNor, LitNor \o LitWic, LitNorwich, LitNORW, LitNORWICH, Space, <<"d">>}

Names ==
    {Join(ws) : ws \in SeqsUpTo(Words, MaxWords)}
    \cup {<<"R", "o", "a", "d", ",", " ">> \o LitNor, <<"S", "O", "M", "E", " ">> \o LitNORW}

Code == <<"C", "9">>
Identities ==
    {PyNone}
    \cup {PyStr(n) : n \in Names}
    \cup {PyStr(n \o Colon \o Code) : n \in Names}
    \cup {PyStr(n \o Colon \o Code \o Colon \o n) : n \in Names}

FewIdentities == {PyStr(<<"A", ":", "1">>), PyStr(<<"B", ":", "2">>)}
Statuses == {PyStr(<<"o", "p", "e", "n">>), PyNone}
Counts == {<<120, 500>>, <<9, 7>>, <<0, 0>>, <<-3, 5>>}
Occupancies == {PyFloat(24, 0), PyFloat(15, 1)}

RawRecords ==
    {RawCarPark(id, st, c[1], c[2], o) :
        id \in FewIdentities, st \in Statuses, c \in Counts, o \in Occupancies}

TransformArgs ==
    {<<RawCarPark(id, PyStr(<<"o", "p", "e", "n">>), 120, 500, PyFloat(24, 0))>> : id \in Identities}
    \cup SeqsUpTo(RawRecords, MaxRaw)

\* with an empty situation in front or behind
WithEmpty(sits) == {sits, <<<<>>>> \o sits, sits \o <<<<>>>>}

ParseArgs ==
    {NotWellFormed}
    \cup {Document(pt, padded) :
            pt \in PublicationTimes \cup BadPublicationTimes,
            padded \in UNION {WithEmpty(sits) :
                              sits \in UNION {Cuts(q) : q \in SeqsUpTo(Records, MaxRecords)}}}

StageArgs ==
    {[stage |-> "parse", xml_data |-> x] : x \in ParseArgs}
    \cup {[stage |-> "transform", car_park_data |-> d] : d \in TransformArgs}

CallParse ==
    /\ arg.stage = "parse" /\ res = PyNone
    /\ res' = ParseXmlData(arg.xml_data)
    /\ UNCHANGED <<envelope, self, response, returned, frames, arg>>

CallTransform ==
    /\ arg.stage = "transform" /\ res = PyNone
    /\ res' = TransformDataToCarParks(arg.car_park_data)
    /\ UNCHANGED <<envelope, self, response, returned, frames, arg>>

InitStages ==
    /\ InitObjects({1}) /\ NoCall /\ NoThreads
    /\ arg \in StageArgs /\ res = PyNone
NextStages == CallParse \/ CallTransform
SpecStages == InitStages /\ [][NextStages]_vars

\* ------------------------------------------------------------------------
\* refresh() called once from each of two threads, on any of the objects:
\* every line of refresh() is a step of its own
\* ------------------------------------------------------------------------
Threads == {"t1", "t2"}

ThreadResponses ==
    {Unreachable,
     Document(Elem(<<"2", "0", "2", "4">>), <<<<RecordA>>>>),
     Document(Elem(<<"2", "0", "2", "5">>), <<<<RecordNoColon>>>>)}

Idle == [pc |-> "idle", self |-> 0, response |-> PyNone, xml |-> PyNone,
         car_park_data |-> PyNone, car_parks |-> PyNone, e |-> PyNone, ret |-> PyNone]

At(t, line) == frames[t].pc = line
Goto(t, line) == frames' = [frames EXCEPT ![t].pc = line]

\* an exception raised in the try block: to the handler if line 190 matches
Except(t, exc) ==
    frames' = [frames EXCEPT ![t].e = exc,
                             ![t].pc = IF Handled(exc) THEN "193" ELSE "escaped"]

Call(t) ==
    /\ At(t, "idle")
    /\ \E obj \in Objects, resp \in ThreadResponses :
          frames' = [frames EXCEPT ![t] = [Idle EXCEPT !.pc = "174", !.self = obj,
                                                       !.response = resp]]
    /\ UNCHANGED <<envelope, self, response, returned, arg, res>>

Line174(t) ==
    /\ At(t, "174")
    /\ \E xml \in {RetrieveXmlData(frames[t].response)} :
          IF xml.ok THEN frames' = [frames EXCEPT ![t].xml = xml.val, ![t].pc = "177"]
          ELSE Except(t, xml)
    /\ UNCHANGED <<envelope, self, response, returned, arg, res>>

Line177(t) ==
    /\ At(t, "177")
    /\ \E parsed \in {ParseXmlData(frames[t].xml)} :
          IF parsed.ok
          THEN /\ frames' = [frames EXCEPT ![t].car_park_data = PyList(parsed.val[1]), ![t].pc = "180"]
               /\ last_updated' = SetAttr(last_updated, frames[t].self, parsed.val[2])
          ELSE Except(t, parsed) /\ UNCHANGED last_updated
    /\ UNCHANGED <<success, error_message, traceback, self, response, returned, arg, res>>

Line180(t) ==
    /\ At(t, "180")
    /\ \E car_parks \in {TransformDataToCarParks(frames[t].car_park_data.v)} :
          IF car_parks.ok
          THEN frames' = [frames EXCEPT ![t].car_parks = PyList(car_parks.val), ![t].pc = "183"]
          ELSE Except(t, car_parks)
    /\ UNCHANGED <<envelope, self, response, returned, arg, res>>

Line183(t) ==
    /\ At(t, "183") /\ Goto(t, "184")
    /\ success' = SetAttr(success, frames[t].self, SuccessEnvelope.success)
    /\ UNCHANGED <<last_updated, error_message, traceback, self, response, returned, arg, res>>

Line184(t) ==
    /\ At(t, "184") /\ Goto(t, "185")
    /\ error_message' = SetAttr(error_message, frames[t].self, SuccessEnvelope.error_message)
    /\ UNCHANGED <<last_updated, success, traceback, self, response, returned, arg, res>>

Line185(t) ==
    /\ At(t, "185") /\ Goto(t, "188")
    /\ traceback' = SetAttr(traceback, frames[t].self, SuccessEnvelope.traceback)
    /\ UNCHANGED <<last_updated, success, error_message, self, response, returned, arg, res>>

Line188(t) ==
    /\ At(t, "188")
    /\ frames' = [frames EXCEPT ![t].ret = frames[t].car_parks, ![t].pc = "done"]
    /\ UNCHANGED <<envelope, self, response, returned, arg, res>>

Line193(t) ==
    /\ At(t, "193") /\ Goto(t, "194")
    /\ success' = SetAttr(success, frames[t].self, FailureEnvelope(frames[t].e).success)
    /\ UNCHANGED <<last_updated, error_message, traceback, self, response, returned, arg, res>>

Line194(t) ==
    /\ At(t, "194") /\ Goto(t, "195")
    /\ error_message' = SetAttr(error_message, frames[t].self, FailureEnvelope(frames[t].e).error_message)
    /\ UNCHANGED <<last_updated, success, traceback, self, response, returned, arg, res>>

Line195(t) ==
    /\ At(t, "195") /\ Goto(t, "198")
    /\ traceback' = SetAttr(traceback, frames[t].self, FailureEnvelope(frames[t].e).traceback)
    /\ UNCHANGED <<last_updated, success, error_message, self, response, returned, arg, res>>

Line198(t) ==
    /\ At(t, "198")
    /\ frames' = [frames EXCEPT ![t].ret = PyList(<<>>), ![t].pc = "done"]
    /\ UNCHANGED <<envelope, self, response, returned, arg, res>>

InitThreads ==
    /\ InitObjects(1..NumInstances) /\ NoCall /\ NoStage
    /\ frames = [t \in Threads |-> Idle]
NextThreads ==
    \E t \in Threads :
        \/ Call(t)
        \/ Line174(t) \/ Line177(t) \/ Line180(t)
        \/ Line183(t) \/ Line184(t) \/ Line185(t) \/ Line188(t)
        \/ Line193(t) \/ Line194(t) \/ Line195(t) \/ Line198(t)
SpecThreads == InitThreads /\ [][NextThreads]_vars

\* ------------------------------------------------------------------------
\* Properties
\* ------------------------------------------------------------------------
Called == self # 0
Year2024 == <<"2", "0", "2", "4">>

IsDocument(resp) == resp.kind = "body" /\ resp.wellFormed
RecordsOf(resp) == IF IsDocument(resp) THEN Join(resp.situations) ELSE <<>>
HasRecordIn(resp, S) == \E i \in 1..Len(RecordsOf(resp)) : RecordsOf(resp)[i] \in S
GoodTime(resp) == IsDocument(resp) /\ resp.publicationTime \in PublicationTimes
DeclaredTime(resp) ==
    IF resp.publicationTime = Elem(Year2024) THEN PyDateTime(2024) ELSE PyDateTime(2025)

\* a feed in which every element the parser reads is there and well formed
ValidFeed(resp) ==
    GoodTime(resp) /\ \A i \in 1..Len(RecordsOf(resp)) : RecordsOf(resp)[i] \in GoodRecords
\* the URL is unreachable, or the body cannot be parsed
FailsBeforeTransform(resp) ==
    \/ resp.kind = "unreachable"
    \/ ~resp.wellFormed
    \/ resp.publicationTime \in BadPublicationTimes
    \/ HasRecordIn(resp, {RecordNoOccupancy, RecordBadInt})
\* the body parses and some identity has no colon
FailsInTransform(resp) == ~FailsBeforeTransform(resp) /\ HasRecordIn(resp, {RecordNoColon})
BadResponse(resp) == FailsBeforeTransform(resp) \/ FailsInTransform(resp)

NonEmptyStr(x) == x.py = "str" /\ x.v # ""
IsEmpty(x) == (x.py = "str" /\ x.v = "") \/ (x.py = "list" /\ x.v = <<>>)

\* C1: whatever fails in fetch, parse or transform, refresh() returns
\* normally with an empty list, and afterwards success is False,
\* error_message is a non-empty string and traceback holds the frames of the
\* captured trace, the outermost being refresh's own.
C1_FailureContained ==
    /\ returned.py # "raise"
    /\ Called /\ BadResponse(response) =>
          /\ returned = PyList(<<>>)
          /\ success[self] = PyBool(FALSE)
          /\ NonEmptyStr(error_message[self])
          /\ traceback[self].py = "list"
          /\ Len(traceback[self].v) > 1
          /\ traceback[self].v[1] \in {"refresh:174", "refresh:177", "refresh:180"}

C1_Witness ==
    /\ Called /\ response.kind = "unreachable"
    /\ returned = PyList(<<>>) /\ success[self] = PyBool(FALSE)

\* C2 as stated: the envelope depends on the latest call alone, so a call
\* that fails before a publication time is parsed leaves last_updated unset,
\* whatever an earlier successful call had stored.
C2_Original ==
    Called /\ FailsBeforeTransform(response) => last_updated[self] = PyNone

\* C2 amended: after every call success, error_message and traceback are
\* what the latest response alone determines; last_updated is that call's
\* publication time when its parse succeeded, and otherwise still what the
\* earlier calls left.
C2_Amended ==
    [][self' # 0 =>
         \A run \in {Pipeline(response')} :
         \A env \in {IF run.end.ok THEN SuccessEnvelope ELSE FailureEnvelope(run.end)} :
             /\ success'[self'] = env.success
             /\ error_message'[self'] = env.error_message
             /\ traceback'[self'] = env.traceback
             /\ last_updated'[self'] = IF run.assigned THEN run.lu ELSE last_updated[self']
      ]_vars

C2_Witness ==
    /\ Called /\ response.kind = "unreachable"
    /\ success[self] = PyBool(FALSE) /\ last_updated[self] # PyNone

\* C3: after a call in which all three stages succeed, success is True,
\* error_message and traceback are empty, last_updated is the publication
\* time of this call's feed, and one car park per record was returned.
C3_SuccessEnvelope ==
    Called /\ ValidFeed(response) =>
        /\ success[self] = PyBool(TRUE)
        /\ IsEmpty(error_message[self])
        /\ IsEmpty(traceback[self])
        /\ last_updated[self] = DeclaredTime(response)
        /\ returned.py = "list"
        /\ Len(returned.v) = Len(RecordsOf(response))

C3_Witness ==
    /\ Called /\ ValidFeed(response) /\ success[self] = PyBool(TRUE)
    /\ returned.py = "list" /\ Len(returned.v) = 2

\* C4: one bad record anywhere in the feed (an element missing, a malformed
\* number, an identity without a colon) makes refresh() report failure and
\* return no record at all.
C4_NoPartialSuccess ==
    Called /\ IsDocument(response) /\ HasRecordIn(response, BadRecords) =>
        success[self] = PyBool(FALSE) /\ returned = PyList(<<>>)

C4_Witness ==
    /\ Called /\ GoodTime(response)
    /\ RecordsOf(response) = <<RecordA, RecordNoOccupancy>>
    /\ success[self] = PyBool(FALSE) /\ returned = PyList(<<>>)

Transformed == arg.stage = "transform" /\ res # PyNone
Parsed == arg.stage = "parse" /\ res # PyNone

HasColon(s) == \E i \in 1..Len(s) : s[i] = ":"
FirstColon(s) == CHOOSE i \in 1..Len(s) : s[i] = ":" /\ \A j \in 1..(i - 1) : s[j] # ":"
BeforeFirstColon(s) == SubSeq(s, 1, FirstColon(s) - 1)
AfterFirstColon(s) == SubSeq(s, FirstColon(s) + 1, Len(s))
\* between the first colon and the second, or the end
CodeSegment(s) ==
    IF HasColon(AfterFirstColon(s)) THEN BeforeFirstColon(AfterFirstColon(s))
    ELSE AfterFirstColon(s)

\* C5: transform takes the name from before the first colon of the identity
\* and the code from between the first colon and the second (or the end);
\* an identity without a colon raises IndexError, an exception that the
\* handler of refresh() catches.
C5_IdentitySplit ==
    Transformed =>
        LET data == arg.car_park_data IN
        /\ res.ok => \A i \in 1..Len(data) :
              /\ data[i].identity.py = "str" /\ HasColon(data[i].identity.v)
              /\ res.val[i].code = PyStr(CodeSegment(data[i].identity.v))
              /\ res.val[i].name = PyStr(FixTruncatedName(BeforeFirstColon(data[i].identity.v)))
        /\ (\E i \in 1..Len(data) :
                data[i].identity.py = "str" /\ ~HasColon(data[i].identity.v))
              => ~res.ok /\ res.type = "IndexError" /\ IsSubclass(res.type, "Exception")

C5_Witness ==
    /\ Transformed /\ res.ok /\ Len(res.val) = 1
    /\ HasColon(AfterFirstColon(arg.car_park_data[1].identity.v))
    /\ res.val[1].code = PyStr(Code)

EndsWithWord(s, w) ==
    /\ Len(s) >= Len(w)
    /\ SubSeq(s, Len(s) - Len(w) + 1, Len(s)) = w
    /\ Len(s) = Len(w) \/ s[Len(s) - Len(w)] \notin WordChars
ReplaceEnd(s, w, by) == IF EndsWithWord(s, w) THEN SubSeq(s, 1, Len(s) - Len(w)) \o by ELSE s
RepairTrailing(s) ==
    ReplaceEnd(ReplaceEnd(ReplaceEnd(s, LitNor, LitNorwich), LitNor \o LitWic, LitNorwich),
               LitNORW, LitNORWICH)

\* C6: the name that transform gives is the name of the identity with a
\* trailing whole word Nor or Norwic replaced by Norwich, then a trailing
\* whole word NORW replaced by NORWICH, and nothing else changed.
C6_TrailingOnly ==
    Transformed /\ res.ok =>
        \A i \in 1..Len(res.val) :
            res.val[i].name = PyStr(RepairTrailing(BeforeFirstColon(arg.car_park_data[i].identity.v)))

\* C7: parse gives one raw record per situationRecord, in document order,
\* with the declared publication time, and does so for every valid feed;
\* transform gives one car park per raw record, in the same order.
C7_OrderPreserved ==
    /\ Parsed =>
          /\ ValidFeed(arg.xml_data) => res.ok
          /\ res.ok =>
                LET recs == Join(arg.xml_data.situations) IN
                /\ Len(res.val[1]) = Len(recs)
                /\ \A i \in 1..Len(recs) :
                      res.val[1][i].identity = PyStr(recs[i].carParkIdentity.text)
                /\ res.val[2] = DeclaredTime(arg.xml_data)
    /\ Transformed /\ res.ok =>
          LET data == arg.car_park_data IN
          /\ Len(res.val) = Len(data)
          /\ \A i \in 1..Len(data) :
                /\ res.val[i].code = PyStr(CodeSegment(data[i].identity.v))
                /\ res.val[i].status = data[i].status
                /\ res.val[i].occupied_spaces = data[i].occupied_spaces
                /\ res.val[i].occupancy = data[i].occupancy

C7_Witness ==
    /\ Parsed /\ res.ok
    /\ arg.xml_data.situations = <<<<RecordB, RecordA>>>>
    /\ res.val[1][1].identity = PyStr(RecordB.carParkIdentity.text)

\* C8: every car park has remaining_spaces = total_capacity -
\* occupied_spaces, negative when more spaces are occupied than exist, and
\* status, occupied_spaces, total_capacity and occupancy as received.
C8_RemainingSpaces ==
    Transformed /\ res.ok =>
        \A i \in 1..Len(res.val) :
            LET data == arg.car_park_data[i] IN
            /\ res.val[i].remaining_spaces = data.total_capacity - data.occupied_spaces
            /\ data.occupied_spaces = 120 /\ data.total_capacity = 500
                  => res.val[i].remaining_spaces = 380
            /\ res.val[i].status = data.status
            /\ res.val[i].occupied_spaces = data.occupied_spaces
            /\ res.val[i].total_capacity = data.total_capacity
            /\ res.val[i].occupancy = data.occupancy

C8_Witness ==
    /\ Transformed /\ res.ok
    /\ \E i \in 1..Len(res.val) :
          /\ arg.car_park_data[i].occupied_spaces > arg.car_park_data[i].total_capacity
          /\ res.val[i].remaining_spaces < 0

\* C9: a step of a thread changes the envelope of no object but the one its
\* refresh() was called on; two interleaved calls on one object can end in
\* an envelope that mixes the success of one with the message of the other.
C9_ObjectsIsolated ==
    [][\A o \in Objects :
          <<last_updated'[o], success'[o], error_message'[o], traceback'[o]>>
              # <<last_updated[o], success[o], error_message[o], traceback[o]>>
          => \E t \in Threads : frames[t].self = o /\ frames'[t] # frames[t]
      ]_vars

C9_Witness ==
    /\ \A t \in Threads : frames[t].pc = "done" /\ frames[t].self = 1
    /\ \E t \in Threads : frames[t].ret = PyList(<<>>)
    /\ \E t \in Threads : frames[t].ret # PyList(<<>>)
    /\ success[1] = PyBool(TRUE)
    /\ NonEmptyStr(error_message[1])

\* C10: a call that fails in fetch or in parse leaves last_updated as it was
\* before the call; a call that fails in transform leaves it at the
\* publication time parsed in that call, with success False.
C10_LastUpdatedOnFailure ==
    [][self' # 0 =>
         /\ FailsBeforeTransform(response') => last_updated'[self'] = last_updated[self']
         /\ FailsInTransform(response') =>
               /\ last_updated'[self'] = DeclaredTime(response')
               /\ success'[self'] = PyBool(FALSE)
      ]_vars

C10_Witness ==
    /\ Called /\ FailsInTransform(response)
    /\ success[self] = PyBool(FALSE)
    /\ last_updated[self] = DeclaredTime(response)
====
